---------------------------- MODULE Spec2Model ----------------------------
(***************************************************************************)
(* Requestary request-dispatch pipeline: CacheService, RequestInterceptor  *)
(* and RequestService, as implemented in                                   *)
(*   src/src/services/request-service.ts                                   *)
(*   src/src/services/request-interceptor.ts                               *)
(*   src/src/config/config-schema.ts                                       *)
(*                                                                         *)
(* Conventions                                                             *)
(*  - an optional field (params?, headers?, body?, auth?) is a sequence of *)
(*    length 0 (undefined) or 1 (the value);                               *)
(*  - a JavaScript object used as a map, and the built-in Map, are         *)
(*    sequences in insertion order, because JSON.stringify and             *)
(*    Map.entries() enumerate in insertion order;                          *)
(*  - time is Date.now() in milliseconds.                                  *)
(*  - Init is the state once the singletons exist; their construction is   *)
(*    a separate concern of the module.                                    *)
(***************************************************************************)
EXTENDS Integers, Sequences, FiniteSets, TLC

VARIABLES
    now,        \* Date.now()
    config,     \* ConfigManager.config (the keys the pipeline reads)
    cache,      \* CacheService.cache : Map<string, CacheEntry>
    last,       \* the last public call made on CacheService and what it returned
    hooks,      \* RequestInterceptor.requestHooks / responseHooks / errorHooks
    history,    \* RequestHistoryManager.history
    globalState,\* context.globalState['requestary.requestHistory']
    calls,      \* the sendRequest invocations: where each is suspended
    chain,      \* an interceptRequest/Response/Error invocation made directly
    retry,      \* the retryRequest invocation: where it is suspended
    singletons, \* the static `instance` fields and the objects constructed
    collections,\* RequestProvider.collections
    container   \* DependencyContainer: services, factories

vars == <<now, config, cache, last, hooks, history, globalState, calls,
          chain, retry, singletons, collections, container>>

---------------------------------------------------------------------------
(* Bounds of the model                                                     *)

MaxTicks == 2          \* clock advances, half a second each

(* Settings explored: maxCacheSize, and cacheTTL in seconds.               *)
CacheSizes == {0, 1, 2}
CacheTTLs == {0, 1}

(* Program constant: `ttl: cacheTTL * 1000 // Convert to milliseconds`     *)
MsPerSecond == 1000

(* The clock is observed every half second.                                *)
TickMs == MsPerSecond \div 2

---------------------------------------------------------------------------
(* Values                                                                  *)

None == << >>
Some(x) == <<x>>

(* An object literal with the given keys in the given order.              *)
Obj2(k1, v1, k2, v2) == << <<k1, v1>>, <<k2, v2>> >>

MkConfig(m, u, p) ==
    [method |-> m, url |-> u, params |-> p, headers |-> None,
     body |-> None, auth |-> None, timeout |-> None]

CfgPlain == MkConfig("GET", "/a", None)
CfgAB    == MkConfig("GET", "/a", Some(Obj2("a", "1", "b", "2")))
CfgBA    == MkConfig("GET", "/a", Some(Obj2("b", "2", "a", "1")))

Configs == {CfgPlain, CfgAB, CfgBA}

(* RequestResponse                                                         *)
MkResponse(st, b, ms) ==
    [headers |-> << >>, body |-> b, status |-> st, time |-> ms, size |-> Len(b)]

Responses == {MkResponse(200, "b1", 0), MkResponse(200, "b2", 0)}

---------------------------------------------------------------------------
(* JSON.stringify on a flat object of string values: members in the        *)
(* object's own enumeration order, no whitespace.  (Keys here are not      *)
(* integer-like, so enumeration order is insertion order.)                 *)

RECURSIVE JsonMembers(_)
JsonMembers(o) ==
    IF o = << >> THEN ""
    ELSE "\"" \o o[1][1] \o "\":\"" \o o[1][2] \o "\""
         \o (IF Len(o) > 1 THEN "," ELSE "")
         \o JsonMembers(Tail(o))

JSON_stringify(o) == "{" \o JsonMembers(o) \o "}"

OrEmpty(opt) == IF opt = None THEN << >> ELSE opt[1]

(* CacheService.generateCacheKey                                           *)
generateCacheKey(c) ==
    c.method \o "|" \o c.url
      \o "|" \o JSON_stringify(OrEmpty(c.params))
      \o "|" \o JSON_stringify(OrEmpty(c.headers))
      \o "|" \o (IF c.body = None THEN "" ELSE JSON_stringify(c.body[1]))
      \o "|" \o (IF c.auth = None THEN "" ELSE JSON_stringify(c.auth[1]))

---------------------------------------------------------------------------
(* The built-in Map<string, CacheEntry>, kept in insertion order.          *)

MapIndex(m, k) ==
    IF \E i \in 1..Len(m) : m[i].key = k
    THEN CHOOSE i \in 1..Len(m) : m[i].key = k
    ELSE 0

MapHas(m, k) == MapIndex(m, k) # 0

MapGet(m, k) == m[MapIndex(m, k)]

(* Map.prototype.set: an existing key keeps its position.                  *)
MapSet(m, k, e) ==
    IF MapHas(m, k)
    THEN [m EXCEPT ![MapIndex(m, k)] = e]
    ELSE Append(m, e)

MapDelete(m, k) == SelectSeq(m, LAMBDA e : e.key # k)

---------------------------------------------------------------------------
(* ConfigValidator / ConfigManager, for the keys the pipeline reads.  A    *)
(* Partial<RequestaryConfigSchema> is a function on the keys it defines.   *)

Defined(p, k) == k \in DOMAIN p

validateConfig(p) ==
    /\ ~(Defined(p, "defaultTimeout")
         /\ (p.defaultTimeout < 0 \/ p.defaultTimeout > 300000))
    /\ ~(Defined(p, "saveHistory") /\ Defined(p, "maxHistoryItems")
         /\ p.maxHistoryItems < 0)
    /\ ~(Defined(p, "cacheResponses") /\ Defined(p, "maxCacheSize")
         /\ p.maxCacheSize < 0)
    /\ ~(Defined(p, "cacheResponses") /\ Defined(p, "cacheTTL")
         /\ p.cacheTTL < 0)

(* { ...baseConfig, ...newConfig }                                         *)
Spread(base, p) ==
    [k \in DOMAIN base \cup DOMAIN p |-> IF k \in DOMAIN p THEN p[k] ELSE base[k]]

(* ConfigManager.updateConfig: mergeConfigs throws on an invalid partial,  *)
(* before the assignment, and updateConfig catches it.                     *)
updateConfig_mergeBeforeValidate(cfg, p) == Spread(cfg, p)

updateConfig(cfg, p) == IF validateConfig(p) THEN Spread(cfg, p) ELSE cfg

(* The keys updateConfig hands to configuration.update: those of the       *)
(* partial, after a merge that did not throw.                              *)
updateConfig_written(p) == IF validateConfig(p) THEN DOMAIN p ELSE {}

(* Whether updateConfig raises: its whole body is inside try/catch, and    *)
(* the catch block logs and shows a message.                               *)
updateConfig_raises(p) == FALSE

---------------------------------------------------------------------------
(* CacheService                                                            *)

Expired(e, t) == t - e.timestamp >= e.ttl

(* Position of entry i in Array.sort((a, b) => a.timestamp - b.timestamp), *)
(* which is stable.                                                        *)
SortRank(m, i) ==
    Cardinality({j \in 1..Len(m) :
        \/ m[j].timestamp < m[i].timestamp
        \/ (m[j].timestamp = m[i].timestamp /\ j < i)})

SortRankNewestFirst(m, i) ==
    Cardinality({j \in 1..Len(m) :
        \/ m[j].timestamp > m[i].timestamp
        \/ (m[j].timestamp = m[i].timestamp /\ j < i)})

pruneCache_newestFirst(m, t, cfg) ==
    LET live == SelectSeq(m, LAMBDA e : ~Expired(e, t))
        over == Len(live) - cfg.maxCacheSize
        gone == IF Len(live) > cfg.maxCacheSize
                THEN {live[i].key : i \in {j \in 1..Len(live) :
                                              SortRankNewestFirst(live, j) < over}}
                ELSE {}
    IN  SelectSeq(live, LAMBDA e : e.key \notin gone)

pruneCache(m, t, cfg) ==
    LET live == SelectSeq(m, LAMBDA e : ~Expired(e, t))
        over == Len(live) - cfg.maxCacheSize
        gone == IF Len(live) > cfg.maxCacheSize
                THEN {live[i].key : i \in {j \in 1..Len(live) : SortRank(live, j) < over}}
                ELSE {}
    IN  SelectSeq(live, LAMBDA e : e.key \notin gone)

set_skipWhenFull(m, c, r, t, cfg) ==
    IF ~cfg.cacheResponses \/ Len(m) >= cfg.maxCacheSize THEN m
    ELSE LET k == generateCacheKey(c)
         IN  MapSet(m, k, [key |-> k, data |-> r, timestamp |-> t,
                           ttl |-> cfg.cacheTTL * MsPerSecond])

set_ignoreFlag(m, c, r, t, cfg) ==
    LET k  == generateCacheKey(c)
        m1 == IF Len(m) >= cfg.maxCacheSize THEN pruneCache(m, t, cfg) ELSE m
    IN  MapSet(m1, k, [key |-> k, data |-> r, timestamp |-> t,
                       ttl |-> cfg.cacheTTL * MsPerSecond])

(* CacheService.set: the cache after set(c, r) at time t.                  *)
set(m, c, r, t, cfg) ==
    IF ~cfg.cacheResponses THEN m
    ELSE LET k  == generateCacheKey(c)
             m1 == IF Len(m) >= cfg.maxCacheSize THEN pruneCache(m, t, cfg) ELSE m
         IN  MapSet(m1, k, [key |-> k, data |-> r, timestamp |-> t,
                            ttl |-> cfg.cacheTTL * MsPerSecond])

get_le(m, c, t, cfg) ==
    IF ~cfg.cacheResponses THEN [ret |-> None, cache |-> m]
    ELSE LET k == generateCacheKey(c)
         IN  IF MapHas(m, k)
             THEN IF t - MapGet(m, k).timestamp <= MapGet(m, k).ttl
                  THEN [ret |-> Some(MapGet(m, k).data), cache |-> m]
                  ELSE [ret |-> None, cache |-> MapDelete(m, k)]
             ELSE [ret |-> None, cache |-> m]

get_ignoreFlag(m, c, t, cfg) ==
    LET k == generateCacheKey(c)
    IN  IF MapHas(m, k)
        THEN IF t - MapGet(m, k).timestamp < MapGet(m, k).ttl
             THEN [ret |-> Some(MapGet(m, k).data), cache |-> m]
             ELSE [ret |-> None, cache |-> MapDelete(m, k)]
        ELSE [ret |-> None, cache |-> m]

(* CacheService.get: [ret |-> null or the response, cache |-> new cache].  *)
get(m, c, t, cfg) ==
    IF ~cfg.cacheResponses THEN [ret |-> None, cache |-> m]
    ELSE LET k == generateCacheKey(c)
         IN  IF MapHas(m, k)
             THEN IF t - MapGet(m, k).timestamp < MapGet(m, k).ttl
                  THEN [ret |-> Some(MapGet(m, k).data), cache |-> m]
                  ELSE [ret |-> None, cache |-> MapDelete(m, k)]
             ELSE [ret |-> None, cache |-> m]

clear(m) == << >>

---------------------------------------------------------------------------
(* JavaScript objects used as string-keyed maps                            *)

HasKey(o, k) == \E i \in 1..Len(o) : o[i][1] = k

Field(o, k) == (CHOOSE p \in {o[i] : i \in 1..Len(o)} : p[1] = k)[2]

(* o[k] = v: an existing key keeps its place, a new one goes last.         *)
ObjSet(o, k, v) ==
    IF HasKey(o, k)
    THEN [i \in 1..Len(o) |-> IF o[i][1] = k THEN <<k, v>> ELSE o[i]]
    ELSE Append(o, <<k, v>>)

(* x || ''  on an optional string                                          *)
FieldOrEmpty(o, k) == IF HasKey(o, k) THEN Field(o, k) ELSE ""

toLowerCase(m) ==
    CASE m = "GET" -> "get"  [] m = "POST" -> "post" [] m = "PUT" -> "put"
      [] m = "DELETE" -> "delete" [] m = "PATCH" -> "patch"
      [] m = "HEAD" -> "head" [] m = "OPTIONS" -> "options"
      [] m = "TRACE" -> "trace"
      [] OTHER -> m

---------------------------------------------------------------------------
(* RequestService.transformConfig                                          *)

ContentTypeOf(type) ==
    CASE type = "json" -> Some("application/json")
      [] type = "form-data" -> Some("multipart/form-data")
      [] type = "x-www-form-urlencoded" -> Some("application/x-www-form-urlencoded")
      [] type = "xml" -> Some("application/xml")
      [] type = "text" -> Some("text/plain")
      [] OTHER -> None

transformConfig_oauth2AsBearer(c, conf) ==
    LET base == [method  |-> toLowerCase(c.method),
                 url     |-> c.url,
                 headers |-> OrEmpty(c.headers),
                 params  |-> OrEmpty(c.params),
                 timeout |-> IF c.timeout # None /\ c.timeout[1] # 0
                             THEN c.timeout[1] ELSE conf.defaultTimeout,
                 data    |-> None,
                 auth    |-> None]
        typed == c.body # None /\ Field(c.body[1], "type") # "none"
                   /\ ContentTypeOf(Field(c.body[1], "type")) # None
        withBody ==
            IF typed
            THEN [base EXCEPT
                    !.headers = ObjSet(@, "Content-Type",
                                       ContentTypeOf(Field(c.body[1], "type"))[1]),
                    !.data = IF HasKey(c.body[1], "content")
                             THEN Some(Field(c.body[1], "content")) ELSE None]
            ELSE base
        authType == IF c.auth = None THEN "" ELSE Field(c.auth[1], "type")
    IN  CASE authType = "basic" ->
               [withBody EXCEPT !.auth =
                   Some([username |-> FieldOrEmpty(c.auth[1], "username"),
                         password |-> FieldOrEmpty(c.auth[1], "password")])]
          [] authType \in {"bearer", "oauth2"} ->
               [withBody EXCEPT !.headers =
                   ObjSet(@, "Authorization",
                          "Bearer " \o (IF HasKey(c.auth[1], "token")
                                        THEN Field(c.auth[1], "token")
                                        ELSE "undefined"))]
          [] OTHER -> withBody

transformConfig(c, conf) ==
    LET base == [method  |-> toLowerCase(c.method),
                 url     |-> c.url,
                 headers |-> OrEmpty(c.headers),
                 params  |-> OrEmpty(c.params),
                 timeout |-> IF c.timeout # None /\ c.timeout[1] # 0
                             THEN c.timeout[1] ELSE conf.defaultTimeout,
                 data    |-> None,
                 auth    |-> None]
        typed == c.body # None /\ Field(c.body[1], "type") # "none"
                   /\ ContentTypeOf(Field(c.body[1], "type")) # None
        withBody ==
            IF typed
            THEN [base EXCEPT
                    !.headers = ObjSet(@, "Content-Type",
                                       ContentTypeOf(Field(c.body[1], "type"))[1]),
                    !.data = IF HasKey(c.body[1], "content")
                             THEN Some(Field(c.body[1], "content")) ELSE None]
            ELSE base
        authType == IF c.auth = None THEN "" ELSE Field(c.auth[1], "type")
    IN  CASE authType = "basic" ->
               [withBody EXCEPT !.auth =
                   Some([username |-> FieldOrEmpty(c.auth[1], "username"),
                         password |-> FieldOrEmpty(c.auth[1], "password")])]
          [] authType = "bearer" ->
               [withBody EXCEPT !.headers =
                   ObjSet(@, "Authorization",
                          "Bearer " \o (IF HasKey(c.auth[1], "token")
                                        THEN Field(c.auth[1], "token")
                                        ELSE "undefined"))]
          [] OTHER -> withBody

---------------------------------------------------------------------------
(* RequestHistoryManager                                                   *)

(* Array.prototype.slice(-n): a negative start counts from the end, so    *)
(* slice(-0) is slice(0), the whole array, and for n < 0 slice(-n) drops   *)
(* the first -n elements.                                                  *)
SliceLast(h, n) ==
    LET from == IF n > 0
                THEN (IF n >= Len(h) THEN 0 ELSE Len(h) - n)
                ELSE (IF -n >= Len(h) THEN Len(h) ELSE -n)
    IN  SubSeq(h, from + 1, Len(h))

saveHistory_persistBeforeTrim(h, conf) ==
    LET trimmed == IF Len(h) > conf.maxHistoryItems
                   THEN SliceLast(h, conf.maxHistoryItems) ELSE h
    IN  [history |-> trimmed, globalState |-> h]

(* saveHistory: [history, globalState] after trimming and persisting.      *)
saveHistory(h, conf) ==
    LET trimmed == IF Len(h) > conf.maxHistoryItems
                   THEN SliceLast(h, conf.maxHistoryItems) ELSE h
    IN  [history |-> trimmed, globalState |-> trimmed]

HistoryId(t, rnd) == "req_" \o ToString(t) \o "_" \o rnd

addSuccessfulRequest(h, g, request, response, t, rnd, conf) ==
    IF ~conf.saveHistory THEN [history |-> h, globalState |-> g]
    ELSE saveHistory(Append(h, [id |-> HistoryId(t, rnd), timestamp |-> t,
                                request |-> request, response |-> Some(response),
                                error |-> None, status |-> "success"]), conf)

addFailedRequest_ignoreFlag(h, g, request, error, t, rnd, conf) ==
    saveHistory(Append(h, [id |-> HistoryId(t, rnd), timestamp |-> t,
                           request |-> request, response |-> None,
                           error |-> Some(error), status |-> "error"]), conf)

addFailedRequest(h, g, request, error, t, rnd, conf) ==
    IF ~conf.saveHistory THEN [history |-> h, globalState |-> g]
    ELSE saveHistory(Append(h, [id |-> HistoryId(t, rnd), timestamp |-> t,
                                request |-> request, response |-> None,
                                error |-> Some(error), status |-> "error"]), conf)

(* What addSuccessfulRequest / addFailedRequest return: the entry, or the  *)
(* null sentinel.                                                          *)
addedEntry(request, response, error, status, t, rnd, conf) ==
    IF ~conf.saveHistory THEN None
    ELSE Some([id |-> HistoryId(t, rnd), timestamp |-> t, request |-> request,
               response |-> response, error |-> error, status |-> status])

getHistory(h) == h

clearHistory(h, conf) == saveHistory(<< >>, conf)

---------------------------------------------------------------------------
(* RequestInterceptor: the default hooks.                                  *)
(*                                                                         *)
(* addDefaultInterceptors pushes the methods themselves                    *)
(* (this.requestHooks.push(this.loggingRequestInterceptor), ...) and the   *)
(* chains call them as plain functions (await hook(interceptedConfig)), so *)
(* inside a hook `this` is undefined.  Every default hook begins by        *)
(* reading this.logger or this.cacheService, which then raises a           *)
(* TypeError inside the async function: the hook's promise rejects.        *)

HookThis == "undefined"

TypeErrorReading(prop) ==
    [class |-> "TypeError",
     message |-> "Cannot read properties of undefined (reading '" \o prop \o "')"]

CacheHit(r) == [class |-> "Object", type |-> "CACHE_HIT", cachedResponse |-> r]

(* What a call of a hook gives: the settled promise, the cache afterwards, *)
(* and whether CacheService.set stored something.                          *)
Return(v, m) == [kind |-> "return", value |-> v, cache |-> m, stored |-> FALSE]
Throw(v, m)  == [kind |-> "throw", value |-> v, cache |-> m, stored |-> FALSE]

loggingRequestInterceptor(this, c, m) ==
    IF this = "undefined" THEN Throw(TypeErrorReading("logger"), m)
    ELSE Return(c, m)

loggingResponseInterceptor(this, r, c, m) ==
    IF this = "undefined" THEN Throw(TypeErrorReading("logger"), m)
    ELSE Return(r, m)

loggingErrorInterceptor(this, e, c, m) ==
    IF this = "undefined" THEN Throw(TypeErrorReading("logger"), m)
    ELSE Return(e, m)

cachingRequestInterceptor(this, c, m) ==
    IF this = "undefined" THEN Throw(TypeErrorReading("cacheService"), m)
    ELSE LET g == get(m, c, now, config)
         IN  IF g.ret # None
             THEN Throw(CacheHit(g.ret[1]), g.cache)
             ELSE Return(c, g.cache)

cachingResponseInterceptor(this, r, c, m) ==
    IF this = "undefined" THEN Throw(TypeErrorReading("cacheService"), m)
    ELSE [kind |-> "return", value |-> r,
          cache |-> set(m, c, r, now, config),
          stored |-> config.cacheResponses]

(* addDefaultInterceptors: logging first, then caching.                    *)
DefaultHooks ==
    [request  |-> <<"loggingRequestInterceptor", "cachingRequestInterceptor">>,
     response |-> <<"loggingResponseInterceptor", "cachingResponseInterceptor">>,
     error    |-> <<"loggingErrorInterceptor">>]

(* Hooks a caller registers with addRequestInterceptor,                   *)
(* addResponseInterceptor or addErrorInterceptor: H1 changes its payload,  *)
(* H2 returns it as it is, HFail throws.                                   *)
CustomHooks == {"H1", "H2", "HFail"}

Changed(payload) ==
    IF "url" \in DOMAIN payload THEN [payload EXCEPT !.url = @ \o "#h1"]
    ELSE IF "body" \in DOMAIN payload THEN [payload EXCEPT !.body = @ \o "#h1"]
    ELSE [payload EXCEPT !.message = @ \o "#h1"]

CustomHook(name, payload, m) ==
    CASE name = "H1" -> Return(Changed(payload), m)
      [] name = "H2" -> Return(payload, m)
      [] name = "HFail" -> Throw([class |-> "Error", message |-> "boom"], m)

(* hook(payload) / hook(payload, config), as the chains call it.           *)
CallHook(name, payload, c, m) ==
    CASE name = "loggingRequestInterceptor" ->
            loggingRequestInterceptor(HookThis, payload, m)
      [] name = "cachingRequestInterceptor" ->
            cachingRequestInterceptor(HookThis, payload, m)
      [] name = "loggingResponseInterceptor" ->
            loggingResponseInterceptor(HookThis, payload, c, m)
      [] name = "cachingResponseInterceptor" ->
            cachingResponseInterceptor(HookThis, payload, c, m)
      [] name = "loggingErrorInterceptor" ->
            loggingErrorInterceptor(HookThis, payload, c, m)
      [] name \in CustomHooks -> CustomHook(name, payload, m)

ChainTurn_continueAfterThrow(list, i, settled) ==
    IF i < Len(list)
    THEN [do |-> "call", i |-> i + 1, payload |-> settled.value]
    ELSE IF settled.kind = "throw" THEN [do |-> "throw", value |-> settled.value]
    ELSE [do |-> "return", value |-> settled.value]

(* One turn of `for (const hook of list) x = await hook(x)` when the       *)
(* awaited hook i has settled: the chain throws, calls the next hook, or   *)
(* returns.                                                                *)
ChainTurn(list, i, settled) ==
    IF settled.kind = "throw" THEN [do |-> "throw", value |-> settled.value]
    ELSE IF i < Len(list)
         THEN [do |-> "call", i |-> i + 1, payload |-> settled.value]
         ELSE [do |-> "return", value |-> settled.value]

interceptRequest_swallowing(i, payload, settled) ==
    ChainTurn(hooks.request, i,
              IF settled.kind = "throw"
              THEN [kind |-> "return", value |-> payload] ELSE settled)

interceptRequest(i, payload, settled) == ChainTurn(hooks.request, i, settled)

interceptResponse(i, payload, settled) == ChainTurn(hooks.response, i, settled)

interceptError(i, payload, settled) == ChainTurn(hooks.error, i, settled)

---------------------------------------------------------------------------
(* RequestService.sendRequest, one invocation, from await to await.        *)

World(call, m, h, g) == [call |-> call, cache |-> m, history |-> h, globalState |-> g]

HookList(stage) ==
    CASE stage = "request" -> hooks.request
      [] stage = "response" -> hooks.response
      [] stage = "error" -> hooks.error

(* The chain of `stage` calls its hook i on payload and awaits it.         *)
AwaitHook(call, stage, i, payload, m, h, g) ==
    LET o == CallHook(HookList(stage)[i], payload, call.config, m)
    IN  World([call EXCEPT !.pc = stage, !.i = i, !.payload = payload,
                            !.settled = [kind |-> o.kind, value |-> o.value],
                            !.stored = @ \/ o.stored],
              o.cache, h, g)

Settle(call, kind, value, m, h, g) ==
    World([call EXCEPT !.pc = "done", !.result = [kind |-> kind, value |-> value]],
          m, h, g)

IsError(e) == e.class \in {"Error", "TypeError", "AxiosError"}

(* The normalisation at the top of the outer catch block.                  *)
ToRequestError(e) ==
    IF e.class = "AxiosError"
    THEN [message |-> e.message, code |-> e.code, details |-> e.data]
    ELSE IF IsError(e)
         THEN [message |-> e.message]
         ELSE [message |-> "Unknown error", details |-> e]

sendRequest_catch_cachingError(call, e, m, h, g) ==
    LET w == AwaitHook(call, "error", 1, ToRequestError(e),
                       set(m, call.config, MkResponse(0, "", 0), now, config), h, g)
    IN  [w EXCEPT !.call.stored = config.cacheResponses]

(* The outer catch block up to its await of interceptError.                *)
sendRequest_catch(call, e, m, h, g) ==
    AwaitHook(call, "error", 1, ToRequestError(e), m, h, g)

(* The inner catch block.                                                  *)
sendRequest_innerCatch(call, e, m, h, g) ==
    IF "type" \in DOMAIN e /\ e.type = "CACHE_HIT"
    THEN Settle(call, "resolved", e.cachedResponse, m, h, g)
    ELSE sendRequest_catch(call, e, m, h, g)

(* The transport's answers: a response, or an AxiosError.                  *)
TransportOutcomes ==
    {[status |-> 200, data |-> "b1", ok |-> TRUE],
     [data |-> None, class |-> "AxiosError", message |-> "timeout",
      code |-> "ECONNABORTED", ok |-> FALSE]}

RandomSuffixes == {"k3x9", "p0q7"}

(* sendRequest resumes `call` where it awaits; `out` is what the transport *)
(* answers if it awaits axios, `rnd` what Math.random gives if it records. *)
Resume(call, out, rnd, m, h, g) ==
    CASE call.pc = "request" ->
           LET rq == interceptRequest(call.i, call.payload, call.settled)
           IN  IF rq.do = "throw" THEN sendRequest_catch(call, rq.value, m, h, g)
               ELSE IF rq.do = "call"
               THEN AwaitHook(call, "request", rq.i, rq.payload, m, h, g)
               ELSE World([call EXCEPT
                             !.pc = "axios",
                             !.sent = @ + 1,
                             !.axiosConfig = Some(transformConfig(rq.value, config)),
                             !.start = now],
                          m, h, g)
      [] call.pc = "axios" ->
           IF out.ok
           THEN AwaitHook([call EXCEPT !.answered = "response"], "response", 1,
                          MkResponse(out.status, out.data, now - call.start), m, h, g)
           ELSE sendRequest_innerCatch([call EXCEPT !.answered = "error"],
                    [class |-> out.class, message |-> out.message,
                     code |-> out.code, data |-> out.data], m, h, g)
      [] call.pc = "response" ->
           LET rs == interceptResponse(call.i, call.payload, call.settled)
               ok == addSuccessfulRequest(h, g, call.config, rs.value, now, rnd, config)
           IN  IF rs.do = "throw" THEN sendRequest_innerCatch(call, rs.value, m, h, g)
               ELSE IF rs.do = "call"
               THEN AwaitHook(call, "response", rs.i, rs.payload, m, h, g)
               ELSE Settle(call, "resolved", rs.value, m, ok.history, ok.globalState)
      [] call.pc = "error" ->
           LET re == interceptError(call.i, call.payload, call.settled)
               ko == addFailedRequest(h, g, call.config, re.value, now, rnd, config)
           IN  IF re.do = "throw" THEN Settle(call, "rejected", re.value, m, h, g)
               ELSE IF re.do = "call"
               THEN AwaitHook(call, "error", re.i, re.payload, m, h, g)
               ELSE Settle(call, "rejected", re.value, m, ko.history, ko.globalState)

MaxCalls == 2          \* sendRequest invocations

CallIds == 1..MaxCalls

(* sendRequest(c) as called: it runs up to its first await, inside the     *)
(* first request hook.  Kept with the call, for the properties: what       *)
(* CacheService.get would have answered for c at that moment (cached),     *)
(* whether caching was enabled then (enabled), how often axios was called  *)
(* (sent), what it answered (answered), whether the call stored a response *)
(* in the cache (stored).                                                  *)
NewCall(c, m) ==
    [pc |-> "request", config |-> c, i |-> 1, payload |-> c,
     settled |-> [kind |-> "return", value |-> c],
     stored |-> FALSE, sent |-> 0, answered |-> "no",
     axiosConfig |-> None, start |-> 0,
     result |-> [kind |-> "pending"],
     cached |-> get(m, c, now, config).ret,
     enabled |-> config.cacheResponses]

sendRequest(c, m, h, g) == AwaitHook(NewCall(c, m), "request", 1, c, m, h, g)

---------------------------------------------------------------------------
(* The singletons: getInstance and the constructors it runs                *)

MaxStack == 4          \* nested constructor calls the call stack holds

Classes ==
    {"ConfigManager", "Logger", "CacheService", "RequestInterceptor",
     "RequestHistoryManager"}

(* The getInstance calls in each constructor body, in program order.       *)
Dependencies(cls) ==
    CASE cls = "ConfigManager" -> <<"Logger">>
      [] cls = "Logger" -> <<"ConfigManager">>
      [] cls = "CacheService" -> <<"ConfigManager", "Logger">>
      [] cls = "RequestInterceptor" -> <<"ConfigManager", "Logger", "CacheService">>
      [] cls = "RequestHistoryManager" -> <<"ConfigManager", "Logger">>

(* A fresh process: no static `instance` is set, nothing is constructed,   *)
(* globalState has not been read.                                          *)
Fresh ==
    [instance |-> {}, constructed |-> [cls \in Classes |-> 0], reads |-> 0,
     made |-> 0]

(* The process once every singleton exists.                                *)
Constructed ==
    [instance |-> Classes, constructed |-> [cls \in Classes |-> 1], reads |-> 1,
     made |-> 0]

RECURSIVE getInstance(_, _, _)
RECURSIVE construct(_, _, _, _)

(* The constructor body of cls from its i-th getInstance call on, at       *)
(* stack depth `depth`: [st, thrown].  An exception leaves the             *)
(* constructor at once.                                                    *)
construct(cls, i, s, depth) ==
    IF i > Len(Dependencies(cls)) THEN [st |-> s, thrown |-> FALSE]
    ELSE LET r == getInstance(Dependencies(cls)[i], s, depth)
         IN  IF r.thrown THEN r ELSE construct(cls, i + 1, r.st, depth)

(* X.getInstance(): `if (!X.instance) { X.instance = new X(); }`.  The     *)
(* assignment happens after the constructor has returned; a call that no   *)
(* longer fits on the stack throws RangeError.                             *)
getInstance(cls, s, depth) ==
    IF cls \in s.instance THEN [st |-> s, thrown |-> FALSE]
    ELSE IF depth >= MaxStack THEN [st |-> s, thrown |-> TRUE]
    ELSE LET r == construct(cls, 1, [s EXCEPT !.constructed[cls] = @ + 1],
                            depth + 1)
         IN  IF r.thrown THEN r
             ELSE [st |-> [r.st EXCEPT !.instance = @ \cup {cls}],
                   thrown |-> FALSE]

(* RequestHistoryManager.loadHistory, the end of its constructor: a        *)
(* failing read is caught and logged, a stored array becomes the history.  *)
loadHistory(stored, readFails) == IF readFails THEN << >> ELSE stored

(* RequestHistoryManager.initialize(context):                              *)
(* [st, thrown, history], reading globalState when it constructs.          *)
initialize(s, h, stored, readFails) ==
    IF "RequestHistoryManager" \in s.instance
    THEN [st |-> s, thrown |-> FALSE, history |-> h]
    ELSE LET r == construct("RequestHistoryManager", 1,
                      [s EXCEPT !.constructed["RequestHistoryManager"] = @ + 1], 1)
         IN  IF r.thrown THEN [st |-> r.st, thrown |-> TRUE, history |-> h]
             ELSE [st |-> [r.st EXCEPT
                             !.instance = @ \cup {"RequestHistoryManager"},
                             !.reads = @ + 1],
                   thrown |-> FALSE,
                   history |-> loadHistory(stored, readFails)]

---------------------------------------------------------------------------
(* DependencyContainer                                                     *)

Keys == {"logger", "requestService"}

(* Nothing registered, no factory invoked.  `invoked` counts, per key, the *)
(* factory invocations since the last reset; `made` counts them all.       *)
EmptyContainer ==
    [made |-> 0, services |-> << >>, factories |-> << >>,
     invoked |-> [k \in Keys |-> 0]]

---------------------------------------------------------------------------
(* Initial state and the public operations as actions                      *)

Idle == [pc |-> "idle"]

InitRest ==
    /\ now = 0
    /\ cache = << >>
    /\ last = [op |-> "none"]
    /\ hooks = DefaultHooks
    /\ history = << >>
    /\ globalState = << >>
    /\ calls = [id \in CallIds |-> Idle]
    /\ chain = Idle
    /\ retry = Idle
    /\ singletons = Constructed
    /\ collections = << >>
    /\ container = EmptyContainer

InitCache ==
    /\ config \in [cacheResponses : BOOLEAN,
                   maxCacheSize : CacheSizes,
                   cacheTTL : CacheTTLs,
                   saveHistory : {TRUE},
                   maxHistoryItems : {100},
                   defaultTimeout : {30000}]
    /\ InitRest

Init ==
    /\ config \in [cacheResponses : BOOLEAN,
                   maxCacheSize : {2},
                   cacheTTL : {1},
                   saveHistory : BOOLEAN,
                   maxHistoryItems : {100},
                   defaultTimeout : {30000}]
    /\ InitRest

(* The run of pruneCache inside set(c, r), when set called it.             *)
PrunedBySet(m, t, cfg) ==
    IF cfg.cacheResponses /\ Len(m) >= cfg.maxCacheSize
    THEN Some([in |-> m, out |-> pruneCache(m, t, cfg)])
    ELSE None

(* The entry stored under c's key, if any.                                 *)
Stored(m, c) ==
    IF MapHas(m, generateCacheKey(c))
    THEN Some(MapGet(m, generateCacheKey(c)))
    ELSE None

Call_set(c, r) ==
    /\ cache' = set(cache, c, r, now, config)
    /\ last' = [op |-> "set", cfg |-> c, arg |-> r, ret |-> None,
                same |-> (cache' = cache),
                pruned |-> PrunedBySet(cache, now, config)]
    /\ UNCHANGED <<now, config, hooks, history, globalState, calls, chain, retry, singletons, collections, container>>

Call_get(c) ==
    /\ cache' = get(cache, c, now, config).cache
    /\ last' = [op |-> "get", cfg |-> c, found |-> Stored(cache, c),
                same |-> (cache' = cache),
                ret |-> get(cache, c, now, config).ret,
                after |-> IF last.op = "set"
                          THEN Some([cfg |-> last.cfg, arg |-> last.arg])
                          ELSE None,
                reenabled |-> /\ last.op = "config"
                              /\ ~last.before.cacheResponses
                              /\ config.cacheResponses]
    /\ UNCHANGED <<now, config, hooks, history, globalState, calls, chain, retry, singletons, collections, container>>

Call_clear ==
    /\ cache' = clear(cache)
    /\ last' = [op |-> "clear"]
    /\ UNCHANGED <<now, config, hooks, history, globalState, calls, chain, retry, singletons, collections, container>>

Tick ==
    /\ now < MaxTicks * TickMs
    /\ now' = now + TickMs
    /\ last' = [op |-> "tick"]
    /\ UNCHANGED <<config, cache, hooks, history, globalState, calls, chain, retry, singletons, collections, container>>

(* Settings changes made while the cache is in use.                        *)
CachePartials ==
    {[cacheResponses |-> b] : b \in BOOLEAN}
      \cup {[cacheTTL |-> t] : t \in CacheTTLs}

Call_updateConfig(p) ==
    /\ config' = updateConfig(config, p)
    /\ last' = [op |-> "config", before |-> config, partial |-> p,
                written |-> updateConfig_written(p),
                raised |-> updateConfig_raises(p)]
    /\ UNCHANGED <<now, cache, hooks, history, globalState, calls, chain, retry, singletons, collections, container>>

Become(id, w) ==
    /\ calls' = [calls EXCEPT ![id] = w.call]
    /\ cache' = w.cache
    /\ history' = w.history
    /\ globalState' = w.globalState
    /\ last' = [op |-> "sendRequest"]
    /\ UNCHANGED <<now, config, hooks, chain, retry, singletons, collections, container>>

Call_sendRequest(id, c) ==
    /\ calls[id].pc = "idle"
    /\ Become(id, sendRequest(c, cache, history, globalState))

(* The event loop resumes a suspended sendRequest.                         *)
Resume_sendRequest(id) ==
    /\ calls[id].pc \in {"request", "axios", "response", "error"}
    /\ \E out \in TransportOutcomes, rnd \in RandomSuffixes :
          Become(id, Resume(calls[id], out, rnd, cache, history, globalState))

NextCache ==
    \/ \E c \in Configs, r \in Responses : Call_set(c, r)
    \/ \E c \in Configs : Call_get(c)
    \/ Call_clear
    \/ Tick
    \/ \E p \in CachePartials : Call_updateConfig(p)

SpecCache == InitCache /\ [][NextCache]_vars

(* The pipeline in use: requests are sent while other callers store        *)
(* responses, time passes and caching is switched on and off.              *)
SendConfigs == {CfgPlain, CfgAB}

Next ==
    \/ \E id \in CallIds, c \in SendConfigs : Call_sendRequest(id, c)
    \/ \E id \in CallIds : Resume_sendRequest(id)
    \/ Call_set(CfgPlain, MkResponse(200, "b2", 0))
    \/ Tick
    \/ \E b \in BOOLEAN : Call_updateConfig([cacheResponses |-> b])

Spec == Init /\ [][Next]_vars

---------------------------------------------------------------------------
(* Properties of CacheService                                              *)

ToSet(m) == {m[i] : i \in 1..Len(m)}

Age(e) == now - e.timestamp

(* C3: get never returns an entry whose age (now minus the timestamp of  *)
(* its last set) has reached its TTL; a get that looks up such an entry    *)
(* removes it from the cache and returns a miss.                           *)
C3_GetNeverReturnsExpired ==
    last.op = "get" =>
        /\ last.ret # None =>
              /\ last.found # None
              /\ last.ret[1] = last.found[1].data
              /\ Age(last.found[1]) < last.found[1].ttl
        /\ (config.cacheResponses /\ last.found # None
              /\ Age(last.found[1]) >= last.found[1].ttl) =>
              /\ last.ret = None
              /\ Stored(cache, last.cfg) = None

(* A get at the very moment the age equals a positive TTL.                 *)
C3_Witness ==
    /\ last.op = "get"
    /\ config.cacheResponses
    /\ last.found # None
    /\ last.found[1].ttl > 0
    /\ Age(last.found[1]) = last.found[1].ttl
    /\ last.ret = None
    /\ Stored(cache, last.cfg) = None

(* C4: with caching enabled and cacheTTL > 0, get(c) called right after    *)
(* set(c, r) returns r, whatever the cache held before.                    *)
C4_GetAfterSetReturnsResponse ==
    (/\ last.op = "get"
     /\ last.after # None
     /\ last.after[1].cfg = last.cfg
     /\ config.cacheResponses
     /\ config.cacheTTL > 0)
        => last.ret = Some(last.after[1].arg)

(* The set found the cache above its maximum size, and overwrote the       *)
(* response stored under the key of c.                                     *)
C4_Witness ==
    /\ last.op = "get"
    /\ last.after # None
    /\ last.after[1].cfg = last.cfg
    /\ config.cacheResponses
    /\ config.cacheTTL > 0
    /\ config.maxCacheSize >= 1
    /\ Len(cache) > config.maxCacheSize
    /\ last.ret = Some(last.after[1].arg)

(* C5: while cacheResponses is false, get returns a miss for every config  *)
(* and set adds or changes no entry.                                       *)
C5_DisabledCacheIsInert ==
    ~config.cacheResponses =>
        /\ last.op = "get" => (last.ret = None /\ last.same)
        /\ last.op = "set" => last.same

(* A get, with caching disabled, of a config whose entry is stored and     *)
(* has not expired.                                                        *)
C5_Witness ==
    /\ ~config.cacheResponses
    /\ last.op = "get"
    /\ last.found # None
    /\ Age(last.found[1]) < last.found[1].ttl
    /\ last.ret = None
    /\ Stored(cache, last.cfg) = last.found

(* C8: with maxCacheSize = N >= 1 the cache never holds more than N        *)
(* entries.                                                                *)
C8_CacheWithinMaxSize ==
    config.maxCacheSize >= 1 => Len(cache) <= config.maxCacheSize

(* C9: pruneCache removes every entry whose age has reached its TTL and    *)
(* then, if more than maxCacheSize entries remain, exactly the             *)
(* (count - maxCacheSize) entries with the smallest timestamps.            *)
PruneIn == ToSet(last.pruned[1].in)
PruneOut == ToSet(last.pruned[1].out)
PruneLive == {e \in PruneIn : Age(e) < e.ttl}

C9_PruneRemovesExpiredThenOldest ==
    (last.op = "set" /\ last.pruned # None) =>
        /\ PruneOut \subseteq PruneLive
        /\ Len(last.pruned[1].out) = Cardinality(PruneOut)
        /\ Cardinality(PruneLive) <= config.maxCacheSize => PruneOut = PruneLive
        /\ Cardinality(PruneLive) > config.maxCacheSize =>
              /\ Cardinality(PruneOut) = config.maxCacheSize
              /\ \A gone \in PruneLive \ PruneOut, kept \in PruneOut :
                    gone.timestamp <= kept.timestamp

(* N + 1 unexpired entries of distinct timestamps, N >= 1: the oldest goes *)
(* and the other N stay.                                                   *)
C9_Witness ==
    /\ last.op = "set"
    /\ last.pruned # None
    /\ config.maxCacheSize >= 1
    /\ PruneLive = PruneIn
    /\ Cardinality(PruneIn) = config.maxCacheSize + 1
    /\ \A e1, e2 \in PruneIn : e1 # e2 => e1.timestamp # e2.timestamp
    /\ \E old \in PruneIn :
          /\ \A e \in PruneIn : old.timestamp <= e.timestamp
          /\ PruneOut = PruneIn \ {old}

(* Two configs that differ only in the order of the keys inside a map.     *)
AsMap(opt) == IF opt = None THEN None ELSE Some(ToSet(opt[1]))

SameUpToKeyOrder(c1, c2) ==
    /\ c1.method = c2.method
    /\ c1.url = c2.url
    /\ AsMap(c1.params) = AsMap(c2.params)
    /\ AsMap(c1.headers) = AsMap(c2.headers)
    /\ AsMap(c1.body) = AsMap(c2.body)
    /\ AsMap(c1.auth) = AsMap(c2.auth)

(* C10: a response stored under a config is returned by get for any        *)
(* config that differs from it only in the order of keys inside a map.     *)
C10_KeyIgnoresKeyOrder ==
    (/\ last.op = "get"
     /\ last.after # None
     /\ SameUpToKeyOrder(last.after[1].cfg, last.cfg)
     /\ config.cacheResponses
     /\ config.cacheTTL > 0)
        => last.ret = Some(last.after[1].arg)

---------------------------------------------------------------------------
(* Properties of RequestService.sendRequest                                *)

Done(id) == calls[id].pc = "done"

InProgress(id) == calls[id].pc \notin {"idle", "done"}

(* C1: a sendRequest for a config whose response the cache serves (at the  *)
(* call and still when it settles) resolves with the cached response.      *)
C1_CacheHitResolves ==
    \A id \in CallIds :
        (/\ Done(id)
         /\ calls[id].cached # None
         /\ get(cache, calls[id].config, now, config).ret = calls[id].cached)
            => calls[id].result = [kind |-> "resolved", value |-> calls[id].cached[1]]

C6_DisabledCacheReachesTransport ==
    \A id \in CallIds :
        (Done(id) /\ ~calls[id].enabled /\ ~config.cacheResponses)
            => calls[id].sent = 1

(* C7: a sendRequest stores a response in the cache only after the         *)
(* transport answered it with a response; one whose request hooks or       *)
(* transport call failed stored nothing.                                   *)
C7_CacheWrittenOnlyAfterSuccess ==
    \A id \in CallIds :
        (calls[id].pc # "idle" /\ calls[id].stored) => calls[id].answered = "response"

(* A sendRequest that failed in its request hooks, with caching enabled.   *)
C7_Witness ==
    \E id \in CallIds :
        /\ Done(id)
        /\ calls[id].result.kind = "rejected"
        /\ calls[id].answered = "no"
        /\ calls[id].enabled /\ config.cacheResponses
        /\ ~calls[id].stored
        /\ Stored(cache, calls[id].config) = None

---------------------------------------------------------------------------
(* The cache key, field by field.  Each config is stored with a response   *)
(* of its own, so a response tells the config it was stored under.         *)

CfgEmptyParams  == MkConfig("GET", "/a", Some(<< >>))
CfgEmptyHeaders == [CfgPlain EXCEPT !.headers = Some(<< >>)]
CfgPipe         == MkConfig("GET", "/a|{}", None)
CfgBodyNone     == [CfgPlain EXCEPT !.body = Some(<< <<"type", "none">> >>)]
CfgAuthNone     == [CfgPlain EXCEPT !.auth = Some(<< <<"type", "none">> >>)]

KeyConfigs ==
    <<CfgPlain, CfgEmptyParams, CfgEmptyHeaders, CfgPipe, CfgBodyNone, CfgAuthNone>>

ResponseOf(i) == MkResponse(200, "r" \o ToString(i), 0)

InitKeys ==
    /\ config = [cacheResponses |-> TRUE, maxCacheSize |-> 2, cacheTTL |-> 1,
                 saveHistory |-> TRUE, maxHistoryItems |-> 100,
                 defaultTimeout |-> 30000]
    /\ InitRest

NextKeys ==
    \/ \E i \in DOMAIN KeyConfigs : Call_set(KeyConfigs[i], ResponseOf(i))
    \/ \E i \in DOMAIN KeyConfigs : Call_get(KeyConfigs[i])
    \/ Call_clear

SpecKeys == InitKeys /\ [][NextKeys]_vars

(* The six fields of the key have the same value in both configs; an      *)
(* absent map is not an empty one.                                         *)
SameKeyFields(c1, c2) ==
    /\ c1.method = c2.method
    /\ c1.url = c2.url
    /\ c1.params = c2.params
    /\ c1.headers = c2.headers
    /\ c1.body = c2.body
    /\ c1.auth = c2.auth

(* C11: get(c) returns only a response that was stored under a config      *)
(* with the same method, url, params, headers, body and auth as c (absent  *)
(* and empty being different values): configs that differ in one of these  *)
(* fields have different keys.                                             *)
C11_KeySeparatesConfigs ==
    (last.op = "get" /\ last.ret # None) =>
        \E i \in DOMAIN KeyConfigs :
            /\ last.ret[1] = ResponseOf(i)
            /\ SameKeyFields(KeyConfigs[i], last.cfg)

---------------------------------------------------------------------------
(* RequestHistoryManager in use: its public operations called directly,    *)
(* while time passes and the history settings are changed.                 *)

MaxHistory == 3        \* entries the history is let grow to

(* maxHistoryItems at start-up, when the whole configuration is validated. *)
HistorySizes == {0, 1, 2}

(* Partial configurations passed to updateConfig.  A partial that has      *)
(* maxHistoryItems and not saveHistory is not range-checked.               *)
HistoryPartials ==
    {[saveHistory |-> b] : b \in BOOLEAN}
      \cup {[maxHistoryItems |-> m] : m \in HistorySizes \cup {-1}}
      \cup {[maxHistoryItems |-> -1, saveHistory |-> TRUE]}

SomeError == [message |-> "timeout"]

InitHistory ==
    /\ config \in [cacheResponses : {FALSE},
                   maxCacheSize : {2},
                   cacheTTL : {1},
                   saveHistory : BOOLEAN,
                   maxHistoryItems : HistorySizes,
                   defaultTimeout : {30000}]
    /\ InitRest

Call_addSuccessfulRequest(c, r, rnd) ==
    /\ Len(history) < MaxHistory
    /\ history' = addSuccessfulRequest(history, globalState, c, r, now, rnd, config).history
    /\ globalState' =
          addSuccessfulRequest(history, globalState, c, r, now, rnd, config).globalState
    /\ last' = [op |-> "add",
                ret |-> addedEntry(c, Some(r), None, "success", now, rnd, config),
                before |-> history, persisted |-> globalState]
    /\ UNCHANGED <<now, config, cache, hooks, calls, chain, retry, singletons, collections, container>>

Call_addFailedRequest(c, e, rnd) ==
    /\ Len(history) < MaxHistory
    /\ history' = addFailedRequest(history, globalState, c, e, now, rnd, config).history
    /\ globalState' =
          addFailedRequest(history, globalState, c, e, now, rnd, config).globalState
    /\ last' = [op |-> "add",
                ret |-> addedEntry(c, None, Some(e), "error", now, rnd, config),
                before |-> history, persisted |-> globalState]
    /\ UNCHANGED <<now, config, cache, hooks, calls, chain, retry, singletons, collections, container>>

Call_clearHistory ==
    /\ history' = clearHistory(history, config).history
    /\ globalState' = clearHistory(history, config).globalState
    /\ last' = [op |-> "clearHistory", before |-> history]
    /\ UNCHANGED <<now, config, cache, hooks, calls, chain, retry, singletons, collections, container>>

NextHistory ==
    \/ \E rnd \in RandomSuffixes :
          Call_addSuccessfulRequest(CfgPlain, MkResponse(200, "b1", 0), rnd)
    \/ \E rnd \in RandomSuffixes : Call_addFailedRequest(CfgPlain, SomeError, rnd)
    \/ Call_clearHistory
    \/ Tick
    \/ \E p \in HistoryPartials : Call_updateConfig(p)

SpecHistory == InitHistory /\ [][NextHistory]_vars

(* Properties of RequestHistoryManager                                     *)

(* The n most recent elements of h, oldest first.                          *)
MostRecent(h, n) ==
    IF n >= Len(h) THEN h ELSE SubSeq(h, Len(h) - n + 1, Len(h))

(* An add that appended: the history it found, followed by its entry.      *)
Appended == Append(last.before, last.ret[1])

(* C12: with saveHistory enabled and maxHistoryItems = M >= 0, after an    *)
(* add the in-memory and the persisted history are both the M most recent  *)
(* of the entries appended so far (those the add found, then its own), in  *)
(* their order.                                                            *)
C12_HistoryKeepsMostRecent ==
    (last.op = "add" /\ config.saveHistory /\ config.maxHistoryItems >= 0) =>
        /\ getHistory(history) = MostRecent(Appended, config.maxHistoryItems)
        /\ globalState = MostRecent(Appended, config.maxHistoryItems)

(* C13: an add leaves the entries it found unmodified and in order, drops  *)
(* entries only from the oldest end, and its entry is the last one that    *)
(* getHistory lists.                                                       *)
C13_HistoryOnlyPrunedFromOldestEnd ==
    (last.op = "add" /\ last.ret # None) =>
        \E k \in 0..Len(last.before) :
            getHistory(history) = SubSeq(Appended, k + 1, Len(Appended))

C15_DisabledHistoryIsInert ==
    (last.op = "add" /\ ~config.saveHistory) =>
        /\ last.ret = None
        /\ history = last.before
        /\ globalState = last.persisted

C15_Witness ==
    /\ last.op = "add"
    /\ ~config.saveHistory
    /\ last.ret = None
    /\ last.before # << >>
    /\ history = last.before
    /\ globalState = last.persisted

---------------------------------------------------------------------------
(* RequestService.retryRequest, one invocation, from await to await.       *)
(*                                                                         *)
(* The invocation keeps the sendRequest it awaits (call), the loop         *)
(* variable (attempt) and lastError.  Kept with it, for the properties:    *)
(* what the transport would answer to each attempt if asked (plan), the    *)
(* errors caught so far (failed), the attempt lastError came from (from),  *)
(* and how many times it called sendRequest (attempts), logger.warn        *)
(* (logged) and setTimeout (delays).                                       *)

MaxRetries == 3        \* largest maxRetries explored

RetryDelays == {0, TickMs}

RetryWorld(r, w) ==
    [retry |-> r, cache |-> w.cache, history |-> w.history,
     globalState |-> w.globalState]

(* `return await this.sendRequest(config)` begins attempt k.               *)
retryRequest_attempt(r, k, m, h, g) ==
    LET w == sendRequest(r.config, m, h, g)
    IN  RetryWorld([r EXCEPT !.pc = "attempt", !.attempt = k,
                             !.attempts = @ + 1, !.call = w.call], w)

retryRequest_throw_wrapNull(r) ==
    [r EXCEPT !.pc = "done",
              !.result = [kind |-> "rejected",
                          value |-> IF r.lastError = None
                                    THEN Some([message |-> "All attempts failed"])
                                    ELSE r.lastError]]

(* `throw lastError` after the loop.                                       *)
retryRequest_throw(r) ==
    [r EXCEPT !.pc = "done",
              !.result = [kind |-> "rejected", value |-> r.lastError]]

retryRequest_catch_keepFirst(r, e) ==
    LET r1 == [r EXCEPT !.lastError = IF @ = None THEN Some(e) ELSE @,
                        !.from = IF r.lastError = None THEN r.attempt ELSE @,
                        !.failed = Append(@, e),
                        !.logged = @ + 1]
    IN  IF r.attempt < r.maxRetries
        THEN [r1 EXCEPT !.pc = "delay", !.delays = @ + 1,
                        !.wake = now + r.retryDelay]
        ELSE retryRequest_throw(r1)

(* The catch block: keep the error, log it, and wait unless this was the   *)
(* last attempt.                                                           *)
retryRequest_catch(r, e) ==
    LET r1 == [r EXCEPT !.lastError = Some(e),
                        !.from = r.attempt,
                        !.failed = Append(@, e),
                        !.logged = @ + 1]
    IN  IF r.attempt < r.maxRetries
        THEN [r1 EXCEPT !.pc = "delay", !.delays = @ + 1,
                        !.wake = now + r.retryDelay]
        ELSE retryRequest_throw(r1)

NewRetry(c, n, d, plan) ==
    [pc |-> "start", config |-> c, maxRetries |-> n, retryDelay |-> d,
     plan |-> plan, attempt |-> 0, call |-> Idle, lastError |-> None,
     from |-> 0, failed |-> << >>, attempts |-> 0, logged |-> 0, delays |-> 0,
     wake |-> 0, result |-> [kind |-> "pending"]]

(* retryRequest(c, n, d) as called: up to its first await.                 *)
retryRequest(c, n, d, plan, m, h, g) ==
    IF 1 <= n
    THEN retryRequest_attempt(NewRetry(c, n, d, plan), 1, m, h, g)
    ELSE RetryWorld(retryRequest_throw(NewRetry(c, n, d, plan)),
                    World(Idle, m, h, g))

(* retryRequest resumes: the sendRequest it awaits goes on, or has         *)
(* settled, or the delay is over.                                          *)
ResumeRetry(r, rnd, m, h, g) ==
    IF r.pc = "delay"
    THEN retryRequest_attempt(r, r.attempt + 1, m, h, g)
    ELSE IF r.call.pc # "done"
    THEN LET w == Resume(r.call, r.plan[r.attempt], rnd, m, h, g)
         IN  RetryWorld([r EXCEPT !.call = w.call], w)
    ELSE IF r.call.result.kind = "resolved"
    THEN RetryWorld([r EXCEPT !.pc = "done", !.result = r.call.result],
                    World(r.call, m, h, g))
    ELSE RetryWorld(retryRequest_catch(r, r.call.result.value),
                    World(r.call, m, h, g))

BecomeRetry(w) ==
    /\ retry' = w.retry
    /\ cache' = w.cache
    /\ history' = w.history
    /\ globalState' = w.globalState
    /\ last' = [op |-> "retryRequest"]
    /\ UNCHANGED <<now, config, hooks, calls, chain, singletons, collections, container>>

Call_retryRequest(c, n, d) ==
    /\ retry.pc = "idle"
    /\ \E plan \in [1..n -> TransportOutcomes] :
          BecomeRetry(retryRequest(c, n, d, plan, cache, history, globalState))

Resume_retryRequest ==
    /\ \/ retry.pc = "attempt"
       \/ retry.pc = "delay" /\ now >= retry.wake
    /\ \E rnd \in RandomSuffixes :
          BecomeRetry(ResumeRetry(retry, rnd, cache, history, globalState))

NextRetry ==
    \/ \E n \in -1..MaxRetries, d \in RetryDelays : Call_retryRequest(CfgPlain, n, d)
    \/ Resume_retryRequest
    \/ Tick

SpecRetry == Init /\ [][NextRetry]_vars

(* Properties of RequestService.retryRequest                               *)

RetryDone == retry.pc = "done"

(* The first attempt the transport would answer with a response, or 0.     *)
FirstSuccess(plan) ==
    IF \E k \in DOMAIN plan : plan[k].ok
    THEN CHOOSE k \in DOMAIN plan : plan[k].ok /\ \A j \in 1..(k - 1) : ~plan[j].ok
    ELSE 0

(* C16: for maxRetries = n >= 1, when the transport fails attempts 1..k-1  *)
(* and answers attempt k <= n with a response, retryRequest resolves with  *)
(* the result of attempt k after exactly k calls of sendRequest, k-1       *)
(* logged failures and k-1 delays.                                         *)
C16_RetryReturnsFirstSuccess ==
    (RetryDone /\ retry.maxRetries >= 1 /\ FirstSuccess(retry.plan) # 0) =>
        /\ retry.result.kind = "resolved"
        /\ retry.result = retry.call.result
        /\ retry.attempts = FirstSuccess(retry.plan)
        /\ retry.logged = FirstSuccess(retry.plan) - 1
        /\ retry.delays = FirstSuccess(retry.plan) - 1

(* C17: for maxRetries = n >= 1, when every attempt fails, retryRequest    *)
(* makes exactly n attempts and n-1 delays, none after the last failure,   *)
(* logs the failures, and rejects with the error of attempt n.             *)
C17_RetryExhaustionRejectsWithLastError ==
    (RetryDone /\ retry.maxRetries >= 1 /\ Len(retry.failed) = retry.attempts) =>
        /\ retry.attempts = retry.maxRetries
        /\ retry.delays = retry.maxRetries - 1
        /\ retry.logged >= retry.maxRetries - 1
        /\ retry.from = retry.maxRetries
        /\ retry.result = [kind |-> "rejected",
                           value |-> Some(retry.failed[retry.maxRetries])]

(* Three failed attempts with a real delay between them.                   *)
C17_Witness ==
    /\ RetryDone
    /\ retry.maxRetries = 3
    /\ retry.retryDelay > 0
    /\ Len(retry.failed) = 3
    /\ retry.attempts = 3
    /\ retry.delays = 2
    /\ retry.from = 3
    /\ retry.result.kind = "rejected"

---------------------------------------------------------------------------
(* RequestInterceptor in use: hooks are registered and the three chains    *)
(* are called directly.  Kept with an invocation, for the properties: the  *)
(* chain (stage) and its argument (input), the hook list when it was       *)
(* called (registered), whether the cache would have served its config     *)
(* then (hit), and each hook call with what it was given and how it        *)
(* settled (seen).                                                         *)

MaxAdded == 2          \* hooks registered after construction

Added == Len(hooks.request) + Len(hooks.response) + Len(hooks.error)
            - (Len(DefaultHooks.request) + Len(DefaultHooks.response)
                 + Len(DefaultHooks.error))

addRequestInterceptor(hs, hook) == [hs EXCEPT !.request = Append(@, hook)]

addResponseInterceptor(hs, hook) == [hs EXCEPT !.response = Append(@, hook)]

addErrorInterceptor(hs, hook) == [hs EXCEPT !.error = Append(@, hook)]

NewChain(stage, payload, c, m) ==
    [pc |-> stage, config |-> c, i |-> 1, payload |-> payload,
     settled |-> [kind |-> "return", value |-> payload], stored |-> FALSE,
     result |-> [kind |-> "pending"], stage |-> stage, input |-> payload,
     registered |-> HookList(stage),
     hit |-> get(m, c, now, config).ret # None, seen |-> << >>]

(* The chain calls its hook i on payload and awaits it.                    *)
ChainAwait(ch, i, payload, m) ==
    LET w == AwaitHook(ch, ch.stage, i, payload, m, << >>, << >>)
    IN  [chain |-> [w.call EXCEPT !.seen =
                       Append(@, [hook |-> HookList(ch.stage)[i],
                                  payload |-> payload,
                                  settled |-> w.call.settled])],
         cache |-> w.cache]

(* The chain resumes when the hook it awaits has settled.                  *)
ResumeChain(ch, m) ==
    LET t == CASE ch.stage = "request" ->
                    interceptRequest(ch.i, ch.payload, ch.settled)
               [] ch.stage = "response" ->
                    interceptResponse(ch.i, ch.payload, ch.settled)
               [] ch.stage = "error" ->
                    interceptError(ch.i, ch.payload, ch.settled)
    IN  IF t.do = "call" THEN ChainAwait(ch, t.i, t.payload, m)
        ELSE [chain |-> [ch EXCEPT !.pc = "done",
                            !.result = [kind |-> IF t.do = "throw" THEN "rejected"
                                                 ELSE "resolved",
                                        value |-> t.value]],
              cache |-> m]

BecomeChain(w) ==
    /\ chain' = w.chain
    /\ cache' = w.cache
    /\ last' = [op |-> "intercept"]
    /\ UNCHANGED <<now, config, hooks, history, globalState, calls, retry, singletons, collections, container>>

Call_interceptRequest(c) ==
    /\ chain.pc \in {"idle", "done"}
    /\ BecomeChain(ChainAwait(NewChain("request", c, c, cache), 1, c, cache))

Call_interceptResponse(r, c) ==
    /\ chain.pc \in {"idle", "done"}
    /\ BecomeChain(ChainAwait(NewChain("response", r, c, cache), 1, r, cache))

Call_interceptError(e, c) ==
    /\ chain.pc \in {"idle", "done"}
    /\ BecomeChain(ChainAwait(NewChain("error", e, c, cache), 1, e, cache))

Resume_intercept ==
    /\ chain.pc \in {"request", "response", "error"}
    /\ BecomeChain(ResumeChain(chain, cache))

Call_addInterceptor(hs) ==
    /\ Added < MaxAdded
    /\ hooks' = hs
    /\ last' = [op |-> "addInterceptor"]
    /\ UNCHANGED <<now, config, cache, history, globalState, calls, chain, retry, singletons, collections, container>>

NextHooks ==
    \/ \E h \in CustomHooks : Call_addInterceptor(addRequestInterceptor(hooks, h))
    \/ \E h \in CustomHooks : Call_addInterceptor(addResponseInterceptor(hooks, h))
    \/ \E h \in CustomHooks : Call_addInterceptor(addErrorInterceptor(hooks, h))
    \/ Call_interceptRequest(CfgPlain)
    \/ Call_interceptResponse(MkResponse(200, "b1", 0), CfgPlain)
    \/ Call_interceptError(SomeError, CfgPlain)
    \/ Resume_intercept
    \/ Call_set(CfgPlain, MkResponse(200, "b2", 0))

SpecHooks == Init /\ [][NextHooks]_vars

(* Properties of RequestInterceptor                                        *)

ChainDone == chain.pc = "done"

SeenHooks == [j \in 1..Len(chain.seen) |-> chain.seen[j].hook]

(* C18: a chain calls its hooks in registration order, each with what the  *)
(* previous one returned: interceptRequest with H1 then H2 registered      *)
(* after the default hooks calls logging, caching, H1, H2, and H2 is given *)
(* what H1 returned, not the chain's argument.                             *)
C18_HooksRunInRegistrationOrder ==
    (/\ ChainDone
     /\ chain.stage = "request"
     /\ ~chain.hit
     /\ hooks.request = DefaultHooks.request \o <<"H1", "H2">>
     /\ chain.registered = hooks.request)
        => /\ SeenHooks = chain.registered
           /\ \A j \in 2..Len(chain.seen) :
                 chain.seen[j].payload = chain.seen[j - 1].settled.value
           /\ chain.seen[4].payload = Changed(chain.input)

(* C19: with only the default hooks registered and no cache hit, each      *)
(* chain resolves with its argument, and interceptResponse has stored the  *)
(* response under the config when caching is enabled.                      *)
C19_DefaultHooksReturnPayload ==
    (/\ ChainDone
     /\ ~chain.hit
     /\ chain.registered = HookList(chain.stage)
     /\ hooks = DefaultHooks)
        => /\ chain.result = [kind |-> "resolved", value |-> chain.input]
           /\ (chain.stage = "response" /\ config.cacheResponses) =>
                 /\ Stored(cache, chain.config) # None
                 /\ Stored(cache, chain.config)[1].data = chain.input

IsCacheHit(e) == "type" \in DOMAIN e /\ e.type = "CACHE_HIT"

(* C20: once a hook of a chain has failed with something other than the    *)
(* cache-hit signal, the chain calls no further hook and rejects with      *)
(* that failure as it was thrown.                                          *)
C20_HookFailurePropagates ==
    chain.pc # "idle" =>
        \A j \in 1..Len(chain.seen) :
            (chain.seen[j].settled.kind = "throw"
               /\ ~IsCacheHit(chain.seen[j].settled.value))
                => /\ j = Len(chain.seen)
                   /\ ChainDone =>
                         chain.result = [kind |-> "rejected",
                                         value |-> chain.seen[j].settled.value]

(* The first of four registered request hooks fails: the chain rejects     *)
(* with its error and the other three were not called.                     *)
C20_Witness ==
    /\ ChainDone
    /\ chain.stage = "request"
    /\ Len(chain.registered) = 4
    /\ Len(chain.seen) = 1
    /\ chain.seen[1].settled.kind = "throw"
    /\ chain.result = [kind |-> "rejected", value |-> chain.seen[1].settled.value]

---------------------------------------------------------------------------
(* RequestValidator                                                        *)

ValidMethods == {"GET", "POST", "PUT", "DELETE", "PATCH", "HEAD", "OPTIONS"}

validateMethod(method) == method \in ValidMethods

(* validateUrl: `new URL(url)` with no base accepts absolute URLs only.    *)
(* Of the URLs used here the first parses and the second, a bare path,     *)
(* throws.                                                                 *)
UrlAbsolute == "https://x.test/a"
UrlBarePath == "/a"

validateUrl(url) == url = UrlAbsolute

(* !x on an optional string: undefined and '' are both falsy.              *)
Truthy(o, k) == HasKey(o, k) /\ Field(o, k) # ""

validateRequestConfig(c) ==
    /\ validateMethod(c.method)
    /\ validateUrl(c.url)
    /\ c.auth # None =>
          LET a == c.auth[1]
          IN  CASE Field(a, "type") = "basic" ->
                     Truthy(a, "username") /\ Truthy(a, "password")
                [] Field(a, "type") = "bearer" -> Truthy(a, "token")
                [] Field(a, "type") = "oauth2" ->
                     /\ Truthy(a, "clientId")
                     /\ Truthy(a, "clientSecret")
                     /\ Truthy(a, "tokenUrl")
                [] OTHER -> TRUE

---------------------------------------------------------------------------
(* RequestService.transformConfig applied to request descriptions.         *)

Obj1(k1, v1) == << <<k1, v1>> >>

Obj3(k1, v1, k2, v2, k3, v3) == << <<k1, v1>>, <<k2, v2>>, <<k3, v3>> >>

BodyTypes ==
    {"json", "form-data", "x-www-form-urlencoded", "xml", "text", "binary"}

HeaderChoices ==
    {None, Some(Obj1("Content-Type", "text/csv")), Some(Obj1("Authorization", "Basic abc"))}

BodyChoices ==
    {None, Some(Obj1("type", "none"))}
      \cup {Some(Obj2("type", t, "content", "data")) : t \in BodyTypes}

AuthChoices ==
    {None,
     Some(Obj1("type", "none")),
     Some(Obj3("type", "basic", "username", "u", "password", "p")),
     Some(Obj2("type", "basic", "password", "p")),
     Some(Obj2("type", "bearer", "token", "T")),
     Some(Obj1("type", "bearer")),
     Some(Obj1("type", "oauth2"))}

TimeoutChoices == {None, Some(0), Some(5000)}

TransformConfigs ==
    [method : {"GET"}, url : {UrlAbsolute}, params : {None},
     headers : HeaderChoices, body : BodyChoices, auth : AuthChoices,
     timeout : TimeoutChoices]
      \cup [method : {"POST", "TRACE"}, url : {UrlAbsolute, UrlBarePath},
            params : {None}, headers : {None}, body : {None},
            auth : AuthChoices, timeout : {None}]

transformConfig_input_sharedHeaders(c, conf) ==
    IF c.headers = None THEN c
    ELSE [c EXCEPT !.headers = Some(transformConfig(c, conf).headers)]

(* The config object as transformConfig leaves it.  The output's headers   *)
(* are a fresh object, `{ ...(config.headers || {}) }`, so the assignments *)
(* to axiosConfig.headers do not reach config.headers; params and the      *)
(* body content are shared with the output and not assigned to.            *)
transformConfig_input(c, conf) == c

Call_transformConfig(c) ==
    /\ last' = [op |-> "transformConfig", cfg |-> c,
                ret |-> transformConfig(c, config),
                input |-> transformConfig_input(c, config)]
    /\ UNCHANGED <<now, config, cache, hooks, history, globalState, calls,
                   chain, retry, singletons, collections, container>>

NextTransform ==
    \/ \E c \in TransformConfigs : Call_transformConfig(c)
    \/ Call_updateConfig([defaultTimeout |-> 10000])

SpecTransform == Init /\ [][NextTransform]_vars

---------------------------------------------------------------------------
(* Properties of transformConfig, read off the last call recorded in       *)
(* `last`.                                                                 *)

Transformed == last.op = "transformConfig"

AuthTypeOf(c) == IF c.auth = None THEN "" ELSE Field(c.auth[1], "type")

BodyTypeOf(c) == IF c.body = None THEN "" ELSE Field(c.body[1], "type")

(* The header k of the output is what the caller supplied, if anything.    *)
HeaderUntouched(c, out, k) ==
    /\ HasKey(out.headers, k) <=> HasKey(OrEmpty(c.headers), k)
    /\ HasKey(out.headers, k) => Field(out.headers, k) = Field(OrEmpty(c.headers), k)

(* A value the config does not give has been filled in on the way out.     *)
Defaulted(c, out) ==
    \/ /\ AuthTypeOf(c) = "basic"
       /\ out.auth # None
       /\ \/ ~HasKey(c.auth[1], "username")
          \/ ~HasKey(c.auth[1], "password")
    \/ /\ AuthTypeOf(c) = "bearer"
       /\ ~HasKey(c.auth[1], "token")
       /\ HasKey(out.headers, "Authorization")
       /\ ~HeaderUntouched(c, out, "Authorization")

(* C23: a config that validateRequestConfig rejects does not reach the     *)
(* transport, and on the way to the transport no missing field of it is    *)
(* replaced by a default value.                                            *)
C23_RejectedConfigNeverCoerced ==
    Transformed /\ ~validateRequestConfig(last.cfg)
        => ~Defaulted(last.cfg, last.ret)

(* C24: for every body type other than none the content becomes the        *)
(* transport data; json, form-data, x-www-form-urlencoded, xml and text    *)
(* set their Content-Type (overwriting the caller's), binary passes the    *)
(* content through and adds no Content-Type.                               *)
C24_BodyContentBecomesData ==
    Transformed /\ BodyTypeOf(last.cfg) \in BodyTypes
        => /\ last.ret.data = Some(Field(last.cfg.body[1], "content"))
           /\ BodyTypeOf(last.cfg) # "binary"
                => /\ HasKey(last.ret.headers, "Content-Type")
                   /\ Some(Field(last.ret.headers, "Content-Type"))
                        = ContentTypeOf(BodyTypeOf(last.cfg))
           /\ BodyTypeOf(last.cfg) = "binary"
                => HeaderUntouched(last.cfg, last.ret, "Content-Type")

(* C25: basic auth becomes transport credentials and adds no Authorization *)
(* header; bearer with token T becomes Authorization = "Bearer T" and sets *)
(* no credentials; oauth2 and none set neither.                            *)
C25_AuthMapping ==
    Transformed
        => LET c == last.cfg
               out == last.ret
           IN  /\ AuthTypeOf(c) = "basic"
                    => /\ out.auth # None
                       /\ HasKey(c.auth[1], "username")
                            => out.auth[1].username = Field(c.auth[1], "username")
                       /\ HasKey(c.auth[1], "password")
                            => out.auth[1].password = Field(c.auth[1], "password")
                       /\ HeaderUntouched(c, out, "Authorization")
               /\ AuthTypeOf(c) = "bearer" /\ HasKey(c.auth[1], "token")
                    => /\ HasKey(out.headers, "Authorization")
                       /\ Field(out.headers, "Authorization")
                            = "Bearer " \o Field(c.auth[1], "token")
                       /\ out.auth = None
               /\ AuthTypeOf(c) \in {"oauth2", "none"}
                    => /\ out.auth = None
                       /\ HeaderUntouched(c, out, "Authorization")

C25_Witness ==
    /\ Transformed
    /\ AuthTypeOf(last.cfg) = "oauth2"
    /\ last.cfg.headers = Some(Obj1("Authorization", "Basic abc"))
    /\ Field(last.ret.headers, "Authorization") = "Basic abc"
    /\ last.ret.auth = None

(* C26: an explicit per-request timeout t >= 0 is the transport timeout;   *)
(* defaultTimeout is used only when the config gives none.                 *)
C26_ExplicitTimeoutWins ==
    Transformed
        => /\ last.cfg.timeout # None => last.ret.timeout = last.cfg.timeout[1]
           /\ last.cfg.timeout = None => last.ret.timeout = config.defaultTimeout

---------------------------------------------------------------------------
(* Properties of sendRequest's outcome and of what it leaves in history.   *)

(* The history entry a settled call should have left: a success entry      *)
(* with the resolved response, or an error entry with the rejected value.  *)
EntryOf(call, e) ==
    /\ e.request = call.config
    /\ \/ /\ call.result.kind = "resolved"
          /\ e.status = "success"
          /\ e.response = Some(call.result.value)
       \/ /\ call.result.kind = "rejected"
          /\ e.status = "error"
          /\ e.error = Some(call.result.value)

EntriesOf(call) == {i \in 1..Len(history) : EntryOf(call, history[i])}

(* The settled calls that had the same config and the same outcome.        *)
SameOutcome(call) ==
    {id \in CallIds : Done(id) /\ calls[id].config = call.config
                               /\ calls[id].result = call.result}

IsRequestError(v) ==
    /\ "message" \in DOMAIN v
    /\ DOMAIN v \subseteq {"message", "code", "details"}

(* C21: a sendRequest that is not answered from the cache and whose        *)
(* transport does not fail runs the request hooks, transforms the config,  *)
(* calls the transport once, runs the response hooks, records the success  *)
(* in history and only then resolves.                                      *)
C21_SuccessPathInOrder ==
    \A id \in CallIds :
        (Done(id) /\ calls[id].cached = None /\ calls[id].answered # "error")
            => /\ calls[id].axiosConfig
                    = Some(transformConfig(calls[id].config, config))
               /\ calls[id].sent = 1
               /\ calls[id].answered = "response"
               /\ calls[id].result.kind = "resolved"
               /\ config.saveHistory => EntriesOf(calls[id]) # {}

(* C22: a sendRequest that rejects rejects with a RequestError, the output *)
(* of the error hooks, and with saveHistory enabled one error entry per    *)
(* rejected call, holding that RequestError, has been appended to history. *)
C22_RejectionIsRecordedRequestError ==
    \A id \in CallIds :
        (Done(id) /\ calls[id].result.kind = "rejected")
            => /\ IsRequestError(calls[id].result.value)
               /\ config.saveHistory
                    => Cardinality(EntriesOf(calls[id]))
                         = Cardinality(SameOutcome(calls[id]))

(* C28: with caching disabled and saveHistory enabled, however the         *)
(* concurrent sendRequest calls interleave, every call that has completed  *)
(* has exactly one history entry for its own config and outcome.           *)
C28_OneEntryPerCompletedCall ==
    (config.saveHistory /\ ~config.cacheResponses
       /\ \A id \in CallIds : calls[id].pc # "idle" => ~calls[id].enabled)
        => \A id \in CallIds :
              Done(id) => Cardinality(EntriesOf(calls[id]))
                            = Cardinality(SameOutcome(calls[id]))

---------------------------------------------------------------------------
(* A fresh process asks for its singletons.                                *)

MaxGetInstance == 3    \* getInstance / initialize calls made

StoredHistories ==
    {<< >>,
     <<[status |-> "error", timestamp |-> 0, request |-> CfgPlain,
        response |-> None, id |-> HistoryId(0, "r1"), error |-> Some(SomeError)]>>}

InitBoot ==
    /\ config \in [cacheResponses : {FALSE},
                   maxCacheSize : {2},
                   cacheTTL : {1},
                   saveHistory : {TRUE},
                   maxHistoryItems : {100},
                   defaultTimeout : {30000}]
    /\ now = 0
    /\ cache = << >>
    /\ last = [op |-> "none"]
    /\ hooks = [request |-> << >>, response |-> << >>, error |-> << >>]
    /\ history = << >>
    /\ globalState \in StoredHistories
    /\ calls = [id \in CallIds |-> Idle]
    /\ chain = Idle
    /\ retry = Idle
    /\ singletons = Fresh
    /\ collections = << >>
    /\ container = EmptyContainer

Call_getInstance(cls) ==
    /\ singletons.made < MaxGetInstance
    /\ LET r == getInstance(cls, singletons, 0)
       IN  /\ singletons' = [r.st EXCEPT !.made = @ + 1]
           /\ last' = [op |-> "getInstance", cls |-> cls,
                       ret |-> IF r.thrown THEN "RangeError" ELSE "instance",
                       before |-> singletons.instance]
    /\ UNCHANGED <<now, config, cache, hooks, history, globalState, calls,
                   chain, retry,
                   collections, container>>

Call_initialize(readFails) ==
    /\ singletons.made < MaxGetInstance
    /\ LET r == initialize(singletons, history, globalState, readFails)
       IN  /\ singletons' = [r.st EXCEPT !.made = @ + 1]
           /\ history' = r.history
           /\ last' = [op |-> "initialize", cls |-> "RequestHistoryManager",
                       ret |-> IF r.thrown THEN "RangeError" ELSE "instance",
                       before |-> singletons.instance,
                       readFails |-> readFails]
    /\ UNCHANGED <<now, config, cache, hooks, globalState, calls, chain, retry,
                   collections, container>>

NextBoot ==
    \/ \E cls \in Classes \ {"RequestHistoryManager"} : Call_getInstance(cls)
    \/ \E readFails \in BOOLEAN : Call_initialize(readFails)

SpecBoot == InitBoot /\ [][NextBoot]_vars

(* C29: the first getInstance on ConfigManager, Logger, CacheService or    *)
(* RequestInterceptor in a fresh process returns an instance having        *)
(* constructed at most one object of each class, and later calls return    *)
(* that instance without constructing anything.                            *)
C29_SingletonCreationTerminates ==
    last.op = "getInstance"
        => /\ last.ret = "instance"
           /\ last.cls \in singletons.instance
           /\ \A cls \in Classes : singletons.constructed[cls] <= 1

(* C30: RequestHistoryManager.initialize completes and returns the         *)
(* manager, with an empty history when reading the persisted history       *)
(* failed; the persisted history is read once, and a second initialize     *)
(* returns the same manager without reading again.                         *)
C30_InitializeSurvivesLoadFailure ==
    last.op = "initialize"
        => /\ last.ret = "instance"
           /\ "RequestHistoryManager" \in singletons.instance
           /\ singletons.constructed["RequestHistoryManager"] = 1
           /\ singletons.reads = 1
           /\ ("RequestHistoryManager" \notin last.before /\ last.readFails)
                => history = << >>

---------------------------------------------------------------------------
(* Persisting the history can fail.                                        *)

(* context.globalState.update returns a Thenable: it stores the value, or  *)
(* throws at the call, or its promise rejects later.                       *)
UpdateOutcomes == {"stored", "throws", "rejects"}

saveHistoryGiven_noCatch(h, g, conf, up) ==
    [history |-> saveHistory(h, conf).history,
     globalState |-> IF up = "stored" THEN saveHistory(h, conf).globalState ELSE g,
     raised |-> up = "throws"]

(* saveHistory when update ends as `up`: the trimming has happened, a      *)
(* throw is caught and logged, a rejection is nobody's to handle.          *)
saveHistoryGiven(h, g, conf, up) ==
    [history |-> saveHistory(h, conf).history,
     globalState |-> IF up = "stored" THEN saveHistory(h, conf).globalState ELSE g,
     raised |-> FALSE]

(* addSuccessfulRequest / addFailedRequest when update ends as `up`: the   *)
(* entry is pushed, then saveHistory runs, then the entry is returned.     *)
addRequestGiven(h, g, entry, conf, up) ==
    IF entry = None THEN [history |-> h, globalState |-> g, ret |-> None, raised |-> FALSE]
    ELSE LET saved == saveHistoryGiven(Append(h, entry[1]), g, conf, up)
         IN  [history |-> saved.history, globalState |-> saved.globalState,
              ret |-> IF saved.raised THEN None ELSE entry, raised |-> saved.raised]

Call_addRequestGiven(c, response, error, status, up, rnd) ==
    /\ Len(history) < MaxHistory
    /\ LET r == addRequestGiven(history, globalState,
                     addedEntry(c, response, error, status, now, rnd, config),
                     config, up)
       IN  /\ history' = r.history
           /\ globalState' = r.globalState
           /\ last' = [op |-> "addGiven", ret |-> r.ret, before |-> history,
                       persisted |-> globalState, raised |-> r.raised,
                       update |-> up]
    /\ UNCHANGED <<now, config, cache, hooks, calls, chain, retry, singletons, collections, container>>

(* The settings changed between adds: history switched off, and the size   *)
(* limit that makes saveHistory drop every entry.                          *)
PersistPartials == {[saveHistory |-> FALSE], [maxHistoryItems |-> -1]}

NextPersist ==
    \/ \E up \in UpdateOutcomes, rnd \in RandomSuffixes :
          Call_addRequestGiven(CfgPlain, Some(MkResponse(200, "b1", 0)), None,
                               "success", up, rnd)
    \/ \E up \in UpdateOutcomes, rnd \in RandomSuffixes :
          Call_addRequestGiven(CfgPlain, None, Some(SomeError), "error", up, rnd)
    \/ Call_clearHistory
    \/ \E p \in PersistPartials : Call_updateConfig(p)

SpecPersist == InitHistory /\ [][NextPersist]_vars

---------------------------------------------------------------------------
(* Looking an entry up by its id                                           *)

(* getHistoryById: Array.prototype.find, the first entry with the id, or   *)
(* undefined.                                                              *)
getHistoryById(h, id) ==
    IF \E i \in 1..Len(h) : h[i].id = id
    THEN Some(h[CHOOSE i \in 1..Len(h) :
                  /\ h[i].id = id
                  /\ \A j \in 1..(i - 1) : h[j].id # id])
    ELSE None

(* C32: the ids of the entries in the history are pairwise distinct, so    *)
(* getHistoryById gives, for the id of the entry an add has just appended, *)
(* that entry, and the not-found sentinel for an id no entry has.          *)
C32_HistoryIdsAreDistinct ==
    /\ \A i, j \in 1..Len(history) :
          i # j => history[i].id # history[j].id
    /\ (last.op = "add" /\ last.ret # None /\ history # << >>
          /\ history[Len(history)] = last.ret[1])
         => getHistoryById(history, last.ret[1].id) = last.ret
    /\ getHistoryById(history, "req_none") = None

---------------------------------------------------------------------------
(* RequestProvider.importCollection                                        *)

MaxCollections == 2    \* collections imported

(* String.replace(/\{|\}/g, '') on the header values used here.            *)
StripBraces(v) == IF v = "{{token}}" THEN "token" ELSE v

(* The headers of an imported request: an array of {name, value,           *)
(* isDisabled} or an object is copied with the braces removed, anything    *)
(* else gives {}.                                                          *)
importHeaders(hd) ==
    IF hd.kind = "array"
    THEN LET RECURSIVE fill(_, _)
             fill(i, o) ==
                 IF i > Len(hd.items) THEN o
                 ELSE fill(i + 1,
                           IF hd.items[i].isDisabled THEN o
                           ELSE ObjSet(o, hd.items[i].name,
                                       StripBraces(hd.items[i].value)))
         IN  fill(1, << >>)
    ELSE IF hd.kind = "object"
    THEN [i \in 1..Len(hd.items) |->
             <<hd.items[i][1], StripBraces(hd.items[i][2])>>]
    ELSE << >>

(* `req.body && req.body.raw`: a string has no `raw`.                      *)
importBody(b) ==
    IF b.kind = "object" /\ b.raw # None /\ b.raw # Some("") THEN b.raw ELSE None

importAuth(a) ==
    IF a = None THEN [type |-> "none", token |-> None]
    ELSE IF a[1].type = "bearer" THEN [type |-> "bearer", token |-> a[1].bearer]
    ELSE [type |-> "none", token |-> None]

importRequest(req, t, rnd) ==
    [id |-> IF req._id # None /\ req._id # Some("") THEN req._id[1]
            ELSE HistoryId(t, rnd),
     name |-> req.name, method |-> req.method, url |-> req.url,
     headers |-> importHeaders(req.headers),
     body |-> importBody(req.body),
     auth |-> importAuth(req.auth)]

(* importCollection on the parsed file: [ret, collections].                *)
importCollection(file, cs, t, rnd) ==
    IF file.requests = None THEN [ret |-> FALSE, collections |-> cs]
    ELSE [ret |-> TRUE,
          collections |->
             Append(cs,
                [name |-> IF file.collectionName # None
                               /\ file.collectionName # Some("")
                          THEN file.collectionName[1] ELSE "Imported Collection",
                 requests |-> [i \in 1..Len(file.requests[1]) |->
                                  importRequest(file.requests[1][i], t, rnd)]])]

(* Requests as files give them.  A file in the native format has id, a     *)
(* string body and auth {type, token}; one in the Thunder Client format    *)
(* has _id, body {raw} and auth {type, bearer}.                            *)
FileHeaders ==
    {[kind |-> "absent", items |-> << >>],
     [kind |-> "object", items |-> Obj1("X-Key", "{{token}}")],
     [kind |-> "array",
      items |-> <<[value |-> "{{token}}", name |-> "X-Key", isDisabled |-> FALSE],
                  [value |-> "v", name |-> "X-Off", isDisabled |-> TRUE]>>]}

NativeRequests ==
    [method : {"GET"}, url : {UrlAbsolute},
     headers : {h \in FileHeaders : h.kind # "array"},
     body : {[kind |-> "absent", raw |-> None, text |-> None],
             [kind |-> "string", raw |-> None, text |-> Some("payload")]},
     auth : {None,
             Some([type |-> "none", token |-> None, bearer |-> None]),
             Some([type |-> "bearer", token |-> Some("T"), bearer |-> None])},
     id : {Some("r1")}, name : {"List"}, _id : {None}]

ThunderRequests ==
    [method : {"GET"}, url : {UrlAbsolute},
     headers : FileHeaders,
     body : {[kind |-> "absent", raw |-> None, text |-> None],
             [kind |-> "object", raw |-> Some("payload"), text |-> None]},
     auth : {None,
             Some([type |-> "bearer", token |-> None, bearer |-> Some("T")])},
     id : {None}, name : {"List"}, _id : {None, Some("t1")}]

NativeFiles ==
    [name : {Some("My API")},
     requests : {Some(<<r>>) : r \in NativeRequests},
     collectionName : {None}]

ThunderFiles ==
    [name : {None},
     requests : {None} \cup {Some(<<r>>) : r \in ThunderRequests},
     collectionName : {None, Some("Thunder")}]

Call_importCollection(file, rnd) ==
    /\ Len(collections) < MaxCollections
    /\ LET r == importCollection(file, collections, now, rnd)
       IN  /\ collections' = r.collections
           /\ last' = [op |-> "importCollection", ret |-> r.ret,
                       before |-> collections, file |-> file]
    /\ UNCHANGED <<now, config, cache, hooks, history, globalState, calls,
                   chain, retry, singletons, container>>

NextImport ==
    \E file \in NativeFiles \cup ThunderFiles, rnd \in RandomSuffixes :
        Call_importCollection(file, rnd)

SpecImport == Init /\ [][NextImport]_vars

IsNative(file) == file.name # None

(* What a request of a native file is expected to become.                  *)
Kept(req, out) ==
    /\ out.id = req.id[1]
    /\ out.name = req.name
    /\ out.method = req.method
    /\ out.url = req.url
    /\ out.headers = req.headers.items
    /\ out.body = req.body.text
    /\ req.auth # None
         => (out.auth.type = req.auth[1].type /\ out.auth.token = req.auth[1].token)

(* C33: importing a file in the native format adds exactly one collection  *)
(* that has the file's name and whose requests keep the file's id, name,   *)
(* method, url, headers, body and auth type and token.                     *)
C33_NativeImportKeepsFields ==
    (last.op = "importCollection" /\ IsNative(last.file)) =>
        /\ last.ret
        /\ Len(collections) = Len(last.before) + 1
        /\ SubSeq(collections, 1, Len(last.before)) = last.before
        /\ LET new == collections[Len(collections)]
               reqs == last.file.requests[1]
           IN  /\ new.name = last.file.name[1]
               /\ Len(new.requests) = Len(reqs)
               /\ \A i \in 1..Len(reqs) : Kept(reqs[i], new.requests[i])

---------------------------------------------------------------------------
(* More properties of RequestService.retryRequest                          *)

(* C34: retryRequest with maxRetries <= 0 makes no attempt and waits for   *)
(* no delay, and rejects with null, not with a RequestError.               *)
C34_NoRetriesRejectsWithNull ==
    (RetryDone /\ retry.maxRetries <= 0) =>
        /\ retry.attempts = 0
        /\ retry.delays = 0
        /\ retry.call = Idle
        /\ retry.result = [kind |-> "rejected", value |-> None]

C34_Witness ==
    /\ RetryDone
    /\ retry.maxRetries = -1
    /\ retry.retryDelay = TickMs
    /\ retry.result.kind = "rejected"
    /\ retry.result.value = None

(* C35: with saveHistory enabled and no trimming, a retryRequest that has  *)
(* ended with k failed attempts has appended k error entries, one per      *)
(* attempt and in attempt order, followed by one success entry if its last *)
(* attempt succeeded.                                                      *)
C35_EveryAttemptIsRecorded ==
    (RetryDone /\ config.saveHistory) =>
        LET k == Len(retry.failed)
            ok == retry.result.kind = "resolved"
        IN  /\ Len(history) = k + (IF ok THEN 1 ELSE 0)
            /\ \A i \in 1..k :
                  /\ history[i].status = "error"
                  /\ history[i].request = retry.config
                  /\ history[i].error = Some(retry.failed[i])
            /\ ok => /\ history[k + 1].status = "success"
                     /\ history[k + 1].response = Some(retry.result.value)

---------------------------------------------------------------------------
(* Switching the cache off and on again                                    *)

(* C36: switching cacheResponses removes no entry, get and set calls made  *)
(* while caching is disabled leave the stored entries as they are, and a   *)
(* get made with caching enabled returns the stored entry of its config as *)
(* long as the TTL the entry was given by set has not elapsed.             *)
C36_DisablingKeepsEntries ==
    /\ [][(last'.op = "config"
            \/ (~config.cacheResponses /\ ~config'.cacheResponses
                  /\ last'.op \in {"get", "set"}))
            => cache' = cache]_vars
    /\ []((last.op = "get" /\ config.cacheResponses /\ last.found # None
             /\ Age(last.found[1]) < last.found[1].ttl)
            => last.ret = Some(last.found[1].data))

(* The get that follows the switching on again, of an entry that was       *)
(* stored before caching was switched off.                                 *)
C36_Witness ==
    /\ last.op = "get"
    /\ last.reenabled
    /\ last.found # None
    /\ last.ret = Some(last.found[1].data)
    /\ Stored(cache, last.cfg) = last.found

---------------------------------------------------------------------------
(* ConfigManager.updateConfig                                              *)

(* C38: the configuration ConfigManager holds passes validateConfig as a   *)
(* whole; maxHistoryItems, maxCacheSize and cacheTTL are never negative.   *)
C38_HeldConfigIsValid ==
    /\ validateConfig(config)
    /\ config.maxHistoryItems >= 0
    /\ config.maxCacheSize >= 0
    /\ config.cacheTTL >= 0

(* C39: updateConfig with a partial that fails validation does not raise,  *)
(* applies no key of the partial to the held configuration and writes      *)
(* nothing to the editor settings.                                         *)
C39_InvalidPartialChangesNothing ==
    (last.op = "config" /\ ~validateConfig(last.partial)) =>
        /\ ~last.raised
        /\ config = last.before
        /\ last.written = {}

C39_Witness ==
    /\ last.op = "config"
    /\ ~validateConfig(last.partial)
    /\ last.partial.maxHistoryItems # last.before.maxHistoryItems
    /\ last.partial.saveHistory # last.before.saveHistory
    /\ config = last.before

---------------------------------------------------------------------------
(* Requests in flight at the same time                                     *)

(* C37: of two sendRequest calls for the same config that are in progress  *)
(* at the same time, neither having found the config in the cache, the one *)
(* that completes first completes having invoked the transport once.       *)
C37_InFlightRequestsAreNotCoalesced ==
    [][\A a, b \in CallIds :
          (/\ a # b
           /\ InProgress(a) /\ InProgress(b)
           /\ calls[a].config = calls[b].config
           /\ calls[a].cached = None /\ calls[b].cached = None
           /\ calls'[a].pc = "done")
              => calls'[a].sent = 1]_vars

---------------------------------------------------------------------------
(* DependencyContainer: register, resolve, reset                           *)

MaxFactoryCalls == 3   \* factory invocations made

(* Two of the factories initializeExtensionServices registers, named by    *)
(* their key: one asks a singleton class for its instance, the other       *)
(* returns the RequestService class.                                       *)
FactoryClass(fn) ==
    CASE fn = "logger" -> "Logger"
      [] fn = "requestService" -> "RequestService"

Services ==
    {[kind |-> "factory", fn |-> fn] : fn \in Keys}
      \cup {[kind |-> "value", fn |-> "preset"]}

(* The factory fn is called: [st, thrown, value].                          *)
invoke(fn, s) ==
    IF fn = "requestService"
    THEN [st |-> s, thrown |-> FALSE, value |-> <<FactoryClass(fn), 0>>]
    ELSE LET r == getInstance(FactoryClass(fn), s, 0)
         IN  [st |-> r.st, thrown |-> r.thrown,
              value |-> <<FactoryClass(fn), r.st.constructed[FactoryClass(fn)]>>]

(* register: a function goes to the factories, anything else to the        *)
(* services.                                                               *)
register(ct, key, service) ==
    IF service.kind = "factory"
    THEN [ct EXCEPT !.factories = ObjSet(@, key, service.fn)]
    ELSE [ct EXCEPT !.services = ObjSet(@, key, <<service.fn, 0>>)]

(* registerSingleton registers a wrapper that calls the factory while its  *)
(* own `instance` is unset; the container calls the wrapper again only     *)
(* when no call of it has returned, so that `instance` is unset whenever   *)
(* the wrapper runs.                                                       *)
registerSingleton(ct, key, fn) == register(ct, key, [kind |-> "factory", fn |-> fn])

(* resolve: [container, st, thrown, ret].                                  *)
resolve(ct, key, s) ==
    IF HasKey(ct.services, key)
    THEN [container |-> ct, st |-> s, thrown |-> FALSE,
          ret |-> Some(Field(ct.services, key))]
    ELSE IF HasKey(ct.factories, key)
    THEN LET r == invoke(Field(ct.factories, key), s)
             called == [ct EXCEPT !.invoked[key] = @ + 1, !.made = @ + 1]
         IN  IF r.thrown
             THEN [container |-> called, st |-> r.st, thrown |-> TRUE, ret |-> None]
             ELSE [container |-> [called EXCEPT !.services = ObjSet(@, key, r.value)],
                   st |-> r.st, thrown |-> FALSE, ret |-> Some(r.value)]
    ELSE [container |-> ct, st |-> s, thrown |-> TRUE, ret |-> None]

reset(ct) ==
    [ct EXCEPT !.services = << >>, !.factories = << >>,
               !.invoked = [k \in Keys |-> 0]]

Call_register(key, service) ==
    /\ container' = register(container, key, service)
    /\ last' = [op |-> "register", key |-> key]
    /\ UNCHANGED <<now, config, cache, hooks, history, globalState, calls,
                   chain, retry, singletons, collections>>

Call_registerSingleton(key, fn) ==
    /\ container' = registerSingleton(container, key, fn)
    /\ last' = [op |-> "registerSingleton", key |-> key]
    /\ UNCHANGED <<now, config, cache, hooks, history, globalState, calls,
                   chain, retry, singletons, collections>>

Call_resolve(key) ==
    /\ container.made < MaxFactoryCalls
    /\ LET r == resolve(container, key, singletons)
       IN  /\ container' = r.container
           /\ singletons' = r.st
           /\ last' = [op |-> "resolve", key |-> key, ret |-> r.ret,
                       thrown |-> r.thrown,
                       stored |-> IF HasKey(container.services, key)
                                  THEN Some(Field(container.services, key))
                                  ELSE None,
                       invokedBefore |-> container.invoked[key]]
    /\ UNCHANGED <<now, config, cache, hooks, history, globalState, calls,
                   chain, retry, collections>>

Call_reset ==
    /\ container' = reset(container)
    /\ last' = [op |-> "reset"]
    /\ UNCHANGED <<now, config, cache, hooks, history, globalState, calls,
                   chain, retry, singletons, collections>>

NextContainer ==
    \/ \E key \in Keys, service \in Services : Call_register(key, service)
    \/ \E key \in Keys : Call_registerSingleton(key, key)
    \/ \E key \in Keys : Call_resolve(key)
    \/ Call_reset

SpecContainer == InitBoot /\ [][NextContainer]_vars

(* C40: between two resets the factories registered under a key are        *)
(* invoked at most once; the first resolve stores what the factory gave,   *)
(* and a resolve of a key that has a stored instance returns that instance *)
(* and invokes no factory, whatever has been registered since.             *)
C40_FactoryInvokedAtMostOnce ==
    /\ \A key \in Keys : container.invoked[key] <= 1
    /\ last.op = "resolve" =>
          /\ last.stored # None =>
                /\ ~last.thrown
                /\ last.ret = last.stored
                /\ container.invoked[last.key] = last.invokedBefore
          /\ (last.stored = None /\ ~last.thrown) =>
                /\ HasKey(container.services, last.key)
                /\ Some(Field(container.services, last.key)) = last.ret

=============================================================================
